---- MODULE Spec2Model ----
(***************************************************************************)
(* NPVision, Hill of Value simulator (src/app.py).                         *)
(*                                                                         *)
(* The script is a Streamlit page: every widget interaction reruns it from *)
(* the top.  One run reads the widgets, and, once "Start Simulation" has   *)
(* been pressed in the session, sweeps the cut-off x production grid with  *)
(* 50 Monte Carlo trials per cell, builds the scenario table and renders   *)
(* it.                                                                     *)
(*                                                                         *)
(* Numbers.  The script computes in binary floating point; the model       *)
(* computes the same expressions exactly, over rationals <<n, d>> in       *)
(* lowest terms with d > 0.  NaN, which reaches the script through an      *)
(* empty CSV cell, is <<0, 0>> and is absorbing.                           *)
(***************************************************************************)
EXTENDS Integers, Sequences, FiniteSets, TLC

VARIABLES
    \* the sidebar widgets (lines 12-21)
    cutoff_range, prod_range, metal_price_mean, metal_price_std,
    recovery_mean, recovery_std, discount_rate, opex, uploaded_file,
    \* st.session_state.run_clicked (lines 29-33)
    run_clicked,
    \* the state of numpy's global random generator (lines 75-76)
    rng,
    \* the locals of the running script (lines 63-94)
    pc, cutoff_vals, prod_vals, scenarios, total_runs, i, j, k,
    npvs, years_list, capex_list, df_plot,
    \* what the page shows: the values given to progress.progress, and the
    \* elements rendered, in order
    progress, page,
    \* history: the sweeps started so far, the generator state the current
    \* sweep started in, the (price, recovery) draws of the current cell, the
    \* calculate_npv calls of the current run, the sweep before this one
    runs, rng0, draws, evaluated, prior,
    \* a single call of one of the script's functions, and what it returned
    called, returned

widgets == <<cutoff_range, prod_range, metal_price_mean, metal_price_std,
             recovery_mean, recovery_std, discount_rate, opex, uploaded_file>>

locals == <<cutoff_vals, prod_vals, scenarios, total_runs, i, j, k,
            npvs, years_list, capex_list, df_plot>>

vars == <<widgets, run_clicked, rng, pc, locals, progress, page,
          runs, rng0, draws, evaluated, prior, called, returned>>

-----------------------------------------------------------------------------
(* Exact arithmetic                                                        *)

NaN == <<0, 0>>

IsNaN(x) == x[2] = 0

Abs(n) == IF n < 0 THEN -n ELSE n

RECURSIVE GCD(_, _)
GCD(a, b) == IF b = 0 THEN a ELSE GCD(b, a % b)

Norm(n, d) ==
    LET g == GCD(Abs(n), Abs(d))
    IN  IF d < 0 THEN <<(-n) \div g, (-d) \div g>> ELSE <<n \div g, d \div g>>

R(n) == <<n, 1>>

Zero == R(0)

RNeg(x) == IF IsNaN(x) THEN NaN ELSE <<-x[1], x[2]>>

RAdd(x, y) ==
    IF IsNaN(x) \/ IsNaN(y) THEN NaN
    ELSE LET g == GCD(x[2], y[2])
         IN  Norm(x[1] * (y[2] \div g) + y[1] * (x[2] \div g), (x[2] \div g) * y[2])

RSub(x, y) == RAdd(x, RNeg(y))

RMul(x, y) ==
    IF IsNaN(x) \/ IsNaN(y) THEN NaN
    ELSE LET g1 == GCD(Abs(x[1]), y[2])
             g2 == GCD(Abs(y[1]), x[2])
         IN  Norm((x[1] \div g1) * (y[1] \div g2), (x[2] \div g2) * (y[2] \div g1))

\* x / y.  The one divisor of the script that can be zero is `years`, and then
\* the dividend is zero too (tonnage = 0): 0.0 / 0.0 is nan in numpy.
RDiv(x, y) ==
    IF IsNaN(x) \/ IsNaN(y) \/ y[1] = 0 THEN NaN
    ELSE RMul(x, Norm(y[2], y[1]))

Floor(x) == x[1] \div x[2]

Ceil(x) == -((-x[1]) \div x[2])

\* x < y, by the continued-fraction expansions (no products are formed)
RECURSIVE RLess(_, _)
RLess(x, y) ==
    LET fx == Floor(x)
        fy == Floor(y)
        rx == x[1] - fx * x[2]
        ry == y[1] - fy * y[2]
    IN  IF fx # fy THEN fx < fy
        ELSE IF ry = 0 THEN FALSE
        ELSE IF rx = 0 THEN TRUE
        ELSE RLess(<<y[2], ry>>, <<x[2], rx>>)

RLeq(x, y) == x = y \/ RLess(x, y)

RMax(x, y) == IF RLess(x, y) THEN y ELSE x

RAbs(x) == IF x[1] < 0 THEN RNeg(x) ELSE x

RECURSIVE RPow(_, _)
RPow(x, n) == IF n = 0 THEN R(1) ELSE RMul(x, RPow(x, n - 1))

\* Python's sum(): 0 + s[1] + s[2] + ...  Exact addition is associative, and
\* the terms are added in halves to keep the evaluation shallow.
RECURSIVE SumRange(_, _, _)
SumRange(s, lo, hi) ==
    IF lo > hi THEN Zero
    ELSE IF lo = hi THEN s[lo]
    ELSE LET mid == (lo + hi) \div 2
         IN  RAdd(SumRange(s, lo, mid), SumRange(s, mid + 1, hi))

sum(s) == SumRange(s, 1, Len(s))

-----------------------------------------------------------------------------
(* numpy                                                                   *)

\* np.arange(start, stop, step): ceil((stop - start) / step) values
np_arange(start, stop, step) ==
    LET n == Ceil(RDiv(RSub(stop, start), step))
    IN  [t \in 1..(IF n > 0 THEN n ELSE 0) |-> RAdd(start, RMul(R(t - 1), step))]

\* np.round(x, 2): to the nearest hundredth, halves to even
np_round2(x) ==
    LET h == RMul(x, R(100))
        f == Floor(h)
        twice == RMul(RSub(h, R(f)), R(2))
        up == RLess(R(1), twice) \/ (twice = R(1) /\ f % 2 = 1)
    IN  Norm(IF up THEN f + 1 ELSE f, 100)

\* a mean that would leave the negative entries out
np_mean_dropping_negative(s) ==
    LET keep == SelectSeq(s, LAMBDA x : IsNaN(x) \/ x[1] >= 0)
    IN  RDiv(sum(keep), R(Len(keep)))

\* np.mean(list)
np_mean(s) == RDiv(sum(s), R(Len(s)))

\* The standard normal deviates the generator yields, one per state; the
\* state advances by one with each draw and the stream repeats.
Deviates == <<0, 1, -1, -6, 1, 0, -1, 2>>

RngPeriod == Len(Deviates)

\* np.random.normal(mean, std) in generator state s
np_random_normal(mean, std, s) == RAdd(R(mean), RMul(R(std), R(Deviates[s + 1])))

rng_next(s) == (s + 1) % RngPeriod

-----------------------------------------------------------------------------
(* The uploaded grade-tonnage curve (lines 21-27)                          *)

NoFile == [columns |-> {}, rows |-> <<>>]

use_curve == uploaded_file # NoFile

user_curve == uploaded_file

\* a selection that would take any position, nearest or not
argsort_head_any(keys) == DOMAIN keys

\* The positions that Series.argsort() may put first (line 37).  The call
\* passes no `kind`, so numpy sorts with its default quicksort, which is not a
\* stable sort: among equal keys, the one that comes first depends on the build
\* (vectorised sorting networks, introsort) and on the length of the column.
argsort_head(keys) ==
    {p \in DOMAIN keys : \A q \in DOMAIN keys : RLeq(keys[p], keys[q])}

\* a * cutoff ** -b with a = 500, b = 0.7, to the hundredth
AnalyticTonnage(cutoff) ==
    LET c == Floor(RMul(cutoff, R(10)))
        t == <<250594, 154258, 116141, 94957, 81225, 71493, 64180, 58453,
               53827, 50000, 46773, 44009, 41611, 39508, 37645>>
    IN  Norm(t[c], 100)

\* a lookup that would raise for a curve without rows only
grade_tonnage_curve_raises_when_empty == use_curve /\ user_curve.rows = <<>>

\* grade_tonnage_curve(cutoff) raises: a column it reads is missing (KeyError),
\* or the curve has no row (float() of an empty selection)
grade_tonnage_curve_raises ==
    /\ use_curve
    /\ \/ ~({"Cutoff", "Tonnage", "Grade"} \subseteq user_curve.columns)
       \/ user_curve.rows = <<>>

\* grade_tonnage_curve(cutoff): the pairs <<tonnage, grade>> a call may return
grade_tonnage_curve(cutoff) ==
    IF use_curve
    THEN LET rows == user_curve.rows
             keys == [p \in DOMAIN rows |-> RAbs(RSub(rows[p].Cutoff, cutoff))]
         IN  {<<rows[p].Tonnage, rows[p].Grade>> : p \in argsort_head(keys)}
    ELSE {<<AnalyticTonnage(cutoff),
            RMax(RSub(Norm(3, 2), RMul(cutoff, Norm(1, 2))), Norm(1, 5))>>}

-----------------------------------------------------------------------------
(* The CAPEX model and the discounted cash flow of one trial (lines 46-61) *)

\* range(int(np.ceil(years))) has no element when the count is not positive
PeriodCount(years) == IF Ceil(years) > 0 THEN Ceil(years) ELSE 0

\* a schedule that would spend in three periods
estimate_capex_schedule_three(total_capex, years) ==
    [t \in 1..PeriodCount(years) |->
        IF t - 1 <= 2 THEN RDiv(total_capex, R(2)) ELSE Zero]

\* line 47
estimate_capex_schedule(total_capex, years) ==
    [t \in 1..PeriodCount(years) |->
        IF t - 1 < 2 THEN RDiv(total_capex, R(2)) ELSE Zero]

\* line 50
estimate_capex(production) == RAdd(R(1000), RMul(R(150), production))

\* a factor that would leave the first period undiscounted
DiscountFactorStartOfPeriod(rate, t) == RPow(RAdd(R(1), RDiv(rate, R(100))), t)

\* a factor that would grow the cashflows with the rate
DiscountFactorCompounding(rate, t) == RPow(RSub(R(1), RDiv(rate, R(100))), t + 1)

\* (1 + discount_rate / 100) ** (t + 1), t the 0-based period (line 60)
DiscountFactor(rate, t) == RPow(RAdd(R(1), RDiv(rate, R(100))), t + 1)

\* cashflows[t] - capex_schedule[t] for every period t (lines 53-60)
NetCashflows(tonnage, grade, price, recovery, opex_, production) ==
    LET metal_content == RDiv(RMul(tonnage, grade), R(100))
        revenue == RMul(RDiv(RMul(metal_content, recovery), R(100)), price)
        years == RDiv(tonnage, production)
        annual_cashflow == RDiv(RSub(revenue, RMul(opex_, tonnage)), years)
        capex == estimate_capex(production)
        capex_schedule == estimate_capex_schedule(capex, years)
        cashflows == [t \in 1..PeriodCount(years) |-> annual_cashflow]
    IN  [t \in 1..Len(cashflows) |-> RSub(cashflows[t], capex_schedule[t])]

\* lines 52-61: what one call returns
calculate_npv(tonnage, grade, price, recovery, opex_, production, rate) ==
    LET nets == NetCashflows(tonnage, grade, price, recovery, opex_, production)
        terms == [t \in DOMAIN nets |-> RDiv(nets[t], DiscountFactor(rate, t - 1))]
    IN  [npv |-> sum(terms),
         years |-> RDiv(tonnage, production),
         capex |-> estimate_capex(production)]

-----------------------------------------------------------------------------
(* The inputs explored                                                     *)

\* the longest grid axes explored: steps above the low end of each slider
MaxCutoffSteps == 1

MaxProdSteps == 1

\* the sweeps explored in one session
MaxRuns == 2

TrialsPerCell == 50

CutoffRanges == {<<Norm(5, 10), Norm(5 + s, 10)>> : s \in 0..MaxCutoffSteps}

ProdRanges == {<<R(1), Norm(2 + s, 2)>> : s \in 0..MaxProdSteps}

PriceMeans == {4000}

RecoveryMeans == {85}

\* <<Price Std Dev, Recovery Std Dev>>: no noise, and the widest of both
NoiseSettings == {<<0, 0>>, <<5000, 15>>}

DiscountRates == {R(10)}

\* the rates a sweep is compared against: the same cells at a higher rate
HigherRates == {Norm(25, 2)}

\* the states numpy's generator is seeded in when the server starts
Seeds == {0}

Opexes == {40}

Row(c, t, g) == [Cutoff |-> c, Tonnage |-> t, Grade |-> g]

AllColumns == {"Cutoff", "Tonnage", "Grade"}

\* a rich block at cut-off 0.5 and a lean one from 0.6 up
GoodCurve ==
    [columns |-> AllColumns,
     rows |-> <<Row(Norm(5, 10), R(3), R(20)), Row(Norm(6, 10), R(1), R(10))>>]

\* the Grade cell of the first row is empty in the CSV
HoleCurve ==
    [columns |-> AllColumns,
     rows |-> <<Row(Norm(5, 10), R(3), NaN), Row(Norm(6, 10), R(1), R(10))>>]

\* the CSV has no Grade column
NoGradeCurve ==
    [columns |-> {"Cutoff", "Tonnage"},
     rows |-> <<Row(Norm(5, 10), R(3), NaN), Row(Norm(6, 10), R(1), NaN)>>]

\* the files uploaded in the sweeps explored.  Without a file the analytic
\* deposit lasts at least 38 periods at every slider setting, and the discount
\* factors of such a life are beyond 32-bit integer arithmetic: the analytic
\* branch is explored through single calls (SpecFn) only.
UploadedFiles == {GoodCurve, HoleCurve, NoGradeCurve}

-----------------------------------------------------------------------------
(* One run of the script                                                   *)

Idle == pc \in {"ready", "done", "crashed"}

Range(s) == {s[n] : n \in DOMAIN s}

\* a sweep that would start from the rows of the run before
scenarios_left_over == scenarios

\* line 67
scenarios_initial == <<>>

\* lines 63-69, read with the widget values of this run
StartSweep ==
    /\ runs < MaxRuns
    /\ cutoff_vals' =
          LET a == np_arange(cutoff_range'[1], RAdd(cutoff_range'[2], Norm(1, 100)), Norm(1, 10))
          IN  [n \in DOMAIN a |-> np_round2(a[n])]
    /\ prod_vals' =
          LET a == np_arange(prod_range'[1], RAdd(prod_range'[2], Norm(1, 100)), Norm(1, 2))
          IN  [n \in DOMAIN a |-> np_round2(a[n])]
    /\ scenarios' = scenarios_initial
    /\ total_runs' = Len(cutoff_vals') * Len(prod_vals')
    /\ progress' = <<>>
    /\ page' = <<"progress bar">>
    /\ i' = 0 /\ j' = 0 /\ k' = 0
    /\ npvs' = <<>> /\ years_list' = <<>> /\ capex_list' = <<>>
    /\ df_plot' = <<>>
    /\ pc' = "sweep"
    /\ runs' = runs + 1
    /\ rng0' = rng
    /\ draws' = <<>>
    /\ evaluated' = 0
    /\ UNCHANGED rng

\* lines 155-156
ShowInfo ==
    /\ cutoff_vals' = <<>> /\ prod_vals' = <<>> /\ scenarios' = <<>>
    /\ total_runs' = 0
    /\ progress' = <<>>
    /\ page' = <<"info">>
    /\ i' = 0 /\ j' = 0 /\ k' = 0
    /\ npvs' = <<>> /\ years_list' = <<>> /\ capex_list' = <<>>
    /\ df_plot' = <<>>
    /\ pc' = "ready"
    /\ draws' = <<>>
    /\ evaluated' = 0
    /\ UNCHANGED <<runs, rng0, rng>>

\* the script from its top (lines 7-33, then 63 or 155)
Rerun(clicked) ==
    /\ run_clicked' = (run_clicked \/ clicked)
    /\ IF run_clicked' THEN StartSweep ELSE ShowInfo
    /\ UNCHANGED <<called, returned>>

\* The user presses "Start Simulation": the script reruns with the widgets as
\* they are (line 32).
ClickStart ==
    /\ Idle
    /\ UNCHANGED widgets
    /\ prior' = IF pc = "done"
                THEN <<[rng0 |-> rng0, table |-> scenarios]>>
                ELSE <<>>
    /\ Rerun(TRUE)

\* The user moves one widget: the script reruns with the new value
\* (lines 12-21).  The moves explored are those of the range sliders, of the
\* discount rate and of the file uploader.
ChangeWidget ==
    /\ Idle
    /\ \/ \E v \in CutoffRanges \ {cutoff_range} :
            /\ cutoff_range' = v
            /\ UNCHANGED <<prod_range, metal_price_mean, metal_price_std, recovery_mean,
                           recovery_std, discount_rate, opex, uploaded_file>>
       \/ \E v \in ProdRanges \ {prod_range} :
            /\ prod_range' = v
            /\ UNCHANGED <<cutoff_range, metal_price_mean, metal_price_std, recovery_mean,
                           recovery_std, discount_rate, opex, uploaded_file>>
       \/ \E v \in DiscountRates \ {discount_rate} :
            /\ discount_rate' = v
            /\ UNCHANGED <<cutoff_range, prod_range, metal_price_mean, metal_price_std,
                           recovery_mean, recovery_std, opex, uploaded_file>>
       \/ \E v \in UploadedFiles \ {uploaded_file} :
            /\ uploaded_file' = v
            /\ UNCHANGED <<cutoff_range, prod_range, metal_price_mean, metal_price_std,
                           recovery_mean, recovery_std, discount_rate, opex>>
    /\ prior' = <<>>
    /\ Rerun(FALSE)

\* loops that would leave a row after its first cell
NextCellSkippingRow(i_, j_) == <<i_ + 1, 0>>

\* lines 71-72: the cell after (i_, j_) in the nested loops
NextCell(i_, j_) == IF j_ + 1 < Len(prod_vals) THEN <<i_, j_ + 1>> ELSE <<i_ + 1, 0>>

\* a report that would count the cells before this one
ProgressValueBeforeCell(i_, j_) == Norm(i_ * Len(prod_vals) + j_, total_runs)

\* line 83: the value given to progress.progress
ProgressValue(i_, j_) == Norm(i_ * Len(prod_vals) + j_ + 1, total_runs)

\* One trial of the current cell (lines 73-81).
Trial ==
    /\ pc = "sweep"
    /\ k < TrialsPerCell
    /\ ~grade_tonnage_curve_raises
    /\ LET price == np_random_normal(metal_price_mean, metal_price_std, rng)
           recovery == np_random_normal(recovery_mean, recovery_std, rng_next(rng))
           first == k = 0
       IN  \E tg \in grade_tonnage_curve(cutoff_vals[i + 1]) :
              LET r == calculate_npv(tg[1], tg[2], price, recovery, R(opex),
                                     prod_vals[j + 1], discount_rate)
              IN  /\ npvs' = Append(IF first THEN <<>> ELSE npvs, r.npv)
                  /\ years_list' = Append(IF first THEN <<>> ELSE years_list, r.years)
                  /\ capex_list' = Append(IF first THEN <<>> ELSE capex_list, r.capex)
                  /\ draws' = Append(IF first THEN <<>> ELSE draws, <<price, recovery>>)
    /\ rng' = rng_next(rng_next(rng))
    /\ k' = k + 1
    /\ evaluated' = evaluated + 1
    /\ UNCHANGED <<widgets, run_clicked, pc, cutoff_vals, prod_vals, scenarios, total_runs,
                   i, j, df_plot, progress, page, runs, rng0, prior, called, returned>>

\* The first trial's curve lookup raises (line 77, after the draws of lines
\* 75-76): nothing catches it and the run ends with the exception on the page.
TrialRaises ==
    /\ pc = "sweep"
    /\ k < TrialsPerCell
    /\ grade_tonnage_curve_raises
    /\ rng' = rng_next(rng_next(rng))
    /\ pc' = "crashed"
    /\ page' = Append(page, "exception")
    /\ UNCHANGED <<widgets, run_clicked, locals, progress, runs, rng0, draws, evaluated,
                   prior, called, returned>>

\* The cell's row is appended and progress is reported (lines 82-83); the
\* loops move on, or end (lines 71-72).
FinishCell ==
    /\ pc = "sweep"
    /\ k = TrialsPerCell
    /\ scenarios' = Append(scenarios,
          [Cutoff |-> cutoff_vals[i + 1], Production |-> prod_vals[j + 1],
           AvgNPV |-> np_mean(npvs), AvgLife |-> np_mean(years_list),
           CAPEX |-> np_mean(capex_list)])
    /\ progress' = Append(progress, ProgressValue(i, j))
    /\ i' = NextCell(i, j)[1]
    /\ j' = NextCell(i, j)[2]
    /\ k' = 0
    /\ pc' = IF i' < Len(cutoff_vals) THEN "sweep" ELSE "frame"
    /\ UNCHANGED <<widgets, run_clicked, rng, cutoff_vals, prod_vals, total_runs, npvs,
                   years_list, capex_list, df_plot, page, runs, rng0, draws, evaluated,
                   prior, called, returned>>

\* a scenario row survives df.dropna()
NoNaN(row) ==
    /\ ~IsNaN(row.Cutoff) /\ ~IsNaN(row.Production)
    /\ ~IsNaN(row.AvgNPV) /\ ~IsNaN(row.AvgLife) /\ ~IsNaN(row.CAPEX)

\* df = pd.DataFrame(scenarios); df_plot = df.dropna() (lines 85-94)
BuildFrame ==
    /\ pc = "frame"
    /\ df_plot' = SelectSeq(scenarios, NoNaN)
    /\ pc' = "render"
    /\ UNCHANGED <<widgets, run_clicked, rng, cutoff_vals, prod_vals, scenarios, total_runs,
                   i, j, k, npvs, years_list, capex_list, progress, page, runs, rng0,
                   draws, evaluated, prior, called, returned>>

display == <<widgets, run_clicked, rng, locals, progress, runs, rng0, draws, evaluated,
             prior, called, returned>>

\* lines 96-97
NoValidScenarios ==
    /\ pc = "render"
    /\ df_plot = <<>>
    /\ page' = Append(page, "No scenarios produced valid NPV results")
    /\ pc' = "done"
    /\ UNCHANGED display

\* lines 98-102
ShowTable ==
    /\ pc = "render"
    /\ df_plot # <<>>
    /\ page' = page \o <<"Simulation complete", "Scenario Table">>
    /\ pc' = "fig1"
    /\ UNCHANGED display

\* lines 104-116: the chart is drawn, or plotly raises and the error is shown
PlotCapex ==
    /\ pc = "fig1"
    /\ \/ page' = Append(page, "CAPEX vs Production")
       \/ page' = Append(page, "2D plot error")
    /\ pc' = "fig2"
    /\ UNCHANGED display

\* lines 118-130
PlotLife ==
    /\ pc = "fig2"
    /\ \/ page' = Append(page, "Life vs Cut-off")
       \/ page' = Append(page, "Life vs Cut-off plot error")
    /\ pc' = "fig3"
    /\ UNCHANGED display

\* an exception of the 3D view that would end the run
HillRaisedUncaught(pg) == [page |-> Append(pg, "exception"), pc |-> "crashed"]

\* lines 151-152: what follows an exception of the pivot or of the surface
HillRaised(pg) == [page |-> Append(pg, "3D Hill error"), pc |-> "download"]

\* lines 132-152: the pivot and the surface are drawn, or one of them raises
PlotHill ==
    /\ pc = "fig3"
    /\ \/ page' = Append(page, "3D Hill of Value") /\ pc' = "download"
       \/ page' = HillRaised(page).page /\ pc' = HillRaised(page).pc
    /\ UNCHANGED display

\* line 154
OfferDownload ==
    /\ pc = "download"
    /\ page' = Append(page, "Download Results")
    /\ pc' = "done"
    /\ UNCHANGED display

-----------------------------------------------------------------------------
(* The session                                                             *)

NoCall == [fn |-> "none", args |-> <<>>]

\* The page as first served: the widgets hold what the user has set, nothing
\* has been pressed, the script has shown its hint (line 156).
Init ==
    /\ cutoff_range \in CutoffRanges
    /\ prod_range \in ProdRanges
    /\ metal_price_mean \in PriceMeans
    /\ \E n \in NoiseSettings : metal_price_std = n[1] /\ recovery_std = n[2]
    /\ recovery_mean \in RecoveryMeans
    /\ discount_rate \in DiscountRates
    /\ opex \in Opexes
    /\ uploaded_file \in UploadedFiles
    /\ run_clicked = FALSE
    /\ rng \in Seeds
    /\ pc = "ready"
    /\ cutoff_vals = <<>> /\ prod_vals = <<>> /\ scenarios = <<>>
    /\ total_runs = 0
    /\ i = 0 /\ j = 0 /\ k = 0
    /\ npvs = <<>> /\ years_list = <<>> /\ capex_list = <<>>
    /\ df_plot = <<>>
    /\ progress = <<>>
    /\ page = <<"info">>
    /\ runs = 0
    /\ rng0 = rng
    /\ draws = <<>>
    /\ evaluated = 0
    /\ prior = <<>>
    /\ called = NoCall
    /\ returned = <<>>

Next ==
    \/ ClickStart
    \/ ChangeWidget
    \/ Trial
    \/ TrialRaises
    \/ FinishCell
    \/ BuildFrame
    \/ NoValidScenarios
    \/ ShowTable
    \/ PlotCapex
    \/ PlotLife
    \/ PlotHill
    \/ OfferDownload

Spec == Init /\ [][Next]_vars

-----------------------------------------------------------------------------
(* Single calls of the script's functions                                  *)

\* two samples equally far from 0.5, and two equally far from 0.8
TieCurve ==
    [columns |-> AllColumns,
     rows |-> <<Row(Norm(4, 10), R(5), R(30)), Row(Norm(6, 10), R(1), R(10)),
                Row(R(1), R(2), R(15))>>]

\* the nearer sample comes second in the file
UnsortedCurve ==
    [columns |-> AllColumns,
     rows |-> <<Row(R(1), R(2), R(15)), Row(Norm(1, 10), R(5), R(30))>>]

SingleRowCurve ==
    [columns |-> AllColumns, rows |-> <<Row(Norm(1, 2), R(100), R(2))>>]

FnFiles == {NoFile, GoodCurve, HoleCurve, TieCurve, UnsortedCurve, SingleRowCurve}

FnCutoffs == {Norm(1, 10), Norm(1, 2), Norm(6, 10), Norm(8, 10), R(1), Norm(3, 2)}

FnCapex == {R(1150), R(1225), R(1300)}

FnYears == {Zero, Norm(1, 2), R(1), Norm(3, 2), R(2), Norm(5, 2), R(3), R(5)}

FnTonnages == {Zero, R(1), R(3), R(5)}

FnGrades == {R(10), R(20)}

FnPrices == {R(-1000), R(4000)}

FnRecoveries == {R(-5), R(85)}

FnProductions == {R(1), Norm(3, 2), R(2)}

FnRates == {R(10), Norm(25, 2)}

\* The page as first served; nothing is pressed, and one function is called once.
InitFn ==
    /\ cutoff_range = <<Norm(1, 2), Norm(1, 2)>>
    /\ prod_range = <<R(1), R(1)>>
    /\ metal_price_mean \in PriceMeans
    /\ metal_price_std = 0
    /\ recovery_mean \in RecoveryMeans
    /\ recovery_std = 0
    /\ discount_rate \in DiscountRates
    /\ opex \in Opexes
    /\ uploaded_file \in FnFiles
    /\ run_clicked = FALSE
    /\ rng \in Seeds
    /\ pc = "ready"
    /\ cutoff_vals = <<>> /\ prod_vals = <<>> /\ scenarios = <<>>
    /\ total_runs = 0
    /\ i = 0 /\ j = 0 /\ k = 0
    /\ npvs = <<>> /\ years_list = <<>> /\ capex_list = <<>>
    /\ df_plot = <<>>
    /\ progress = <<>>
    /\ page = <<"info">>
    /\ runs = 0
    /\ rng0 = rng
    /\ draws = <<>>
    /\ evaluated = 0
    /\ prior = <<>>
    /\ called = NoCall
    /\ returned = <<>>

session == <<widgets, run_clicked, rng, pc, locals, progress, page, runs, rng0, draws,
             evaluated, prior>>

Call_grade_tonnage_curve ==
    /\ called = NoCall
    /\ ~grade_tonnage_curve_raises
    /\ \E cutoff \in FnCutoffs :
         \E r \in grade_tonnage_curve(cutoff) :
            /\ called' = [fn |-> "grade_tonnage_curve", args |-> <<cutoff>>]
            /\ returned' = r
    /\ UNCHANGED session

Call_estimate_capex_schedule ==
    /\ called = NoCall
    /\ \E total_capex \in FnCapex, years \in FnYears :
         /\ called' = [fn |-> "estimate_capex_schedule", args |-> <<total_capex, years>>]
         /\ returned' = estimate_capex_schedule(total_capex, years)
    /\ UNCHANGED session

Call_calculate_npv ==
    /\ called = NoCall
    /\ \E tonnage \in FnTonnages, grade \in FnGrades, price \in FnPrices,
          recovery \in FnRecoveries, production \in FnProductions, rate \in FnRates :
         /\ called' = [fn |-> "calculate_npv",
                       args |-> <<tonnage, grade, price, recovery, R(opex), production, rate>>]
         /\ returned' = calculate_npv(tonnage, grade, price, recovery, R(opex), production, rate)
    /\ UNCHANGED session

NextFn ==
    \/ Call_grade_tonnage_curve
    \/ Call_estimate_capex_schedule
    \/ Call_calculate_npv

SpecFn == InitFn /\ [][NextFn]_vars

-----------------------------------------------------------------------------
(* Properties of the sweep (Spec)                                          *)

\* the nested loops have run to their end in this run
SweepComplete == pc \in {"frame", "render", "fig1", "fig2", "fig3", "download", "done"}

\* C1: once the sweep has ended the table has len(cutoff_vals) * len(prod_vals)
\* rows, the row of cell (c, p) is at position c * len(prod_vals) + p (cut-off
\* major, production minor), and every pair of the product is in exactly one row.
GridComplete ==
    SweepComplete =>
        /\ Len(scenarios) = Len(cutoff_vals) * Len(prod_vals)
        /\ \A n \in DOMAIN scenarios :
              /\ scenarios[n].Cutoff = cutoff_vals[((n - 1) \div Len(prod_vals)) + 1]
              /\ scenarios[n].Production = prod_vals[((n - 1) % Len(prod_vals)) + 1]
        /\ \A c \in DOMAIN cutoff_vals, p \in DOMAIN prod_vals :
              Cardinality({n \in DOMAIN scenarios :
                              /\ scenarios[n].Cutoff = cutoff_vals[c]
                              /\ scenarios[n].Production = prod_vals[p]}) = 1

GridCompleteWitness ==
    /\ SweepComplete
    /\ Len(cutoff_vals) >= 2 /\ Len(prod_vals) >= 2
    /\ Len(scenarios) = Len(cutoff_vals) * Len(prod_vals)

\* C2: progress is reported once per appended cell; the n-th report is n / total,
\* n never exceeds total, and the last report of a sweep is total / total = 1.
ProgressReports ==
    /\ Len(progress) = Len(scenarios)
    /\ \A n \in DOMAIN progress : n <= total_runs /\ progress[n] = Norm(n, total_runs)
    /\ SweepComplete => progress # <<>> /\ progress[Len(progress)] = R(1)

ProgressReportsWitness ==
    /\ SweepComplete
    /\ Len(progress) >= 4
    /\ progress[1] = Norm(1, total_runs)

\* the function f on 1..n, as a sequence
AsSeq(f) == f \o <<>>

\* the last action appended a cell (lines 82-83), whose draws are in `draws`
CellDone == pc \in {"sweep", "frame"} /\ k = 0 /\ scenarios # <<>>

LastRow == scenarios[Len(scenarios)]

LastCellDeposit == CHOOSE tg \in grade_tonnage_curve(LastRow.Cutoff) : TRUE

\* the n-th trial of the last cell, evaluated at discount rate `rate`
LastCellTrial(n, rate) ==
    calculate_npv(LastCellDeposit[1], LastCellDeposit[2], draws[n][1], draws[n][2],
                  R(opex), LastRow.Production, rate)

LastCellNets(n) ==
    NetCashflows(LastCellDeposit[1], LastCellDeposit[2], draws[n][1], draws[n][2],
                 R(opex), LastRow.Production)

MalformedCurve == use_curve /\ ~(AllColumns \subseteq uploaded_file.columns)

ConfigErrorBeforeEvaluation ==
    MalformedCurve =>
        /\ evaluated = 0
        /\ scenarios = <<>>
        /\ progress = <<>>
        /\ pc \in {"ready", "sweep", "crashed"}
        /\ pc = "crashed" => "exception" \in Range(page)

ConfigErrorWitness == MalformedCurve /\ pc = "crashed" /\ run_clicked

\* the last cell's average NPV at a higher discount rate, with the same draws
LastCellAvgNpvAt(rate) ==
    np_mean(AsSeq([n \in 1..Len(draws) |-> LastCellTrial(n, rate).npv]))

NonNegative(x) == ~IsNaN(x) /\ ~RLess(x, Zero)

LastCellAllNets == AsSeq([n \in DOMAIN draws |-> LastCellNets(n)])

\* every trial has a non-negative net cashflow in all periods from `first` on
NetsNonNegativeFrom(nets, first) ==
    \A n \in DOMAIN nets :
        \A t \in DOMAIN nets[n] : t >= first => NonNegative(nets[n][t])

SomeNetPositive(nets) ==
    \E n \in DOMAIN nets : \E t \in DOMAIN nets[n] : RLess(Zero, nets[n][t])

\* the flat annual cashflow of every trial of the last cell is non-negative
AnnualCashflowsNonNegative(nets) ==
    \A n \in DOMAIN nets :
        nets[n] # <<>> =>
            NonNegative(RAdd(nets[n][1], RDiv(estimate_capex(LastRow.Production), R(2))))

\* C8 as stated: a cell whose cashflows are non-negative after the capex of the
\* first period (the annual cashflow is non-negative, and so is every net
\* cashflow after the first period) has a strictly lower average NPV at a
\* higher discount rate.
DiscountingLowersNpvAfterYear0 ==
    CellDone /\ ~IsNaN(LastRow.AvgNPV) =>
        LET nets == LastCellAllNets
        IN  NetsNonNegativeFrom(nets, 2) /\ AnnualCashflowsNonNegative(nets) =>
               \A rate \in HigherRates : RLess(LastCellAvgNpvAt(rate), LastRow.AvgNPV)

\* C8, amended: a cell whose net cashflows (annual cashflow less the period's
\* capex) are non-negative in every period, the first included, and positive
\* in some period, has a strictly lower average NPV at a higher discount rate.
DiscountingLowersNpv ==
    CellDone /\ ~IsNaN(LastRow.AvgNPV) =>
        LET nets == LastCellAllNets
        IN  NetsNonNegativeFrom(nets, 1) /\ SomeNetPositive(nets) =>
               \A rate \in HigherRates : RLess(LastCellAvgNpvAt(rate), LastRow.AvgNPV)

DiscountingLowersNpvWitness ==
    /\ CellDone /\ ~IsNaN(LastRow.AvgNPV)
    /\ LET nets == LastCellAllNets
       IN  NetsNonNegativeFrom(nets, 1) /\ SomeNetPositive(nets)
    /\ Len(LastCellNets(1)) >= 3

HillFailureIsReported ==
    /\ "exception" \in Range(page) => "Scenario Table" \notin Range(page)
    /\ "3D Hill error" \in Range(page) =>
          /\ "Scenario Table" \in Range(page)
          /\ pc \in {"download", "done"}
          /\ df_plot = SelectSeq(scenarios, NoNaN)
    /\ pc = "done" /\ "Scenario Table" \in Range(page) => "Download Results" \in Range(page)

HillFailureWitness ==
    /\ pc = "done"
    /\ "3D Hill error" \in Range(page)
    /\ "Download Results" \in Range(page)
    /\ Len(df_plot) < Len(scenarios)

-----------------------------------------------------------------------------
(* Properties of single calls (SpecFn)                                     *)

\* C3: estimate_capex_schedule(total, years) has ceil(years) entries, total / 2
\* in the first two and zero after; they add up to total when there are two
\* or more, and to less than total when there are fewer.
CapexScheduleShape ==
    called.fn = "estimate_capex_schedule" =>
        LET total_capex == called.args[1]
            periods == Ceil(called.args[2])
        IN  /\ Len(returned) = periods
            /\ \A t \in 1..periods :
                  returned[t] = IF t <= 2 THEN RDiv(total_capex, R(2)) ELSE Zero
            /\ periods >= 2 => sum(returned) = total_capex
            /\ periods < 2 => RLess(sum(returned), total_capex)

CapexScheduleWitness ==
    /\ called.fn = "estimate_capex_schedule"
    /\ Len(returned) >= 3
    /\ returned[3] = Zero
    /\ sum(returned) = called.args[1]

Distance(rows, p, cutoff) == RAbs(RSub(rows[p].Cutoff, cutoff))

Nearest(rows, p, cutoff) ==
    \A q \in DOMAIN rows : RLeq(Distance(rows, p, cutoff), Distance(rows, q, cutoff))

RECURSIVE PresentValue(_, _, _)
PresentValue(nets, q, t) ==
    IF t > Len(nets) THEN Zero
    ELSE RDiv(RAdd(nets[t], PresentValue(nets, q, t + 1)), q)

\* C5: for tonnage > 0, calculate_npv discounts ceil(tonnage / production)
\* periods; period t (from 0) carries the flat annual cashflow less
\* capexSchedule[t], divided by (1 + rate / 100) ^ (t + 1); npv is their sum,
\* the mine life is tonnage / production and the capex is 1000 + 150 * production.
NpvOfOneTrial ==
    called.fn = "calculate_npv" /\ RLess(Zero, called.args[1]) =>
        LET tonnage == called.args[1]
            grade == called.args[2]
            price == called.args[3]
            recovery == called.args[4]
            opex_ == called.args[5]
            production == called.args[6]
            rate == called.args[7]
            years == RDiv(tonnage, production)
            capex == RAdd(R(1000), RMul(R(150), production))
            revenue == RDiv(RMul(RMul(RMul(tonnage, grade), recovery), price), R(10000))
            annual == RDiv(RSub(revenue, RMul(opex_, tonnage)), years)
            schedule == estimate_capex_schedule(capex, years)
            nets == [t \in 1..Ceil(years) |-> RSub(annual, schedule[t])]
            q == RAdd(R(1), RDiv(rate, R(100)))
        IN  /\ returned.npv = PresentValue(nets, q, 1)
            /\ returned.years = years
            /\ returned.capex = capex

NpvOfOneTrialWitness ==
    /\ called.fn = "calculate_npv"
    /\ Ceil(RDiv(called.args[1], called.args[6])) >= 3
    /\ RDiv(called.args[1], called.args[6])[2] # 1
    /\ returned.npv # Zero

====
